---- MODULE Spec2Model ----
(***************************************************************************)
(* Krane deployment reconciliation engine.                                 *)
(*                                                                         *)
(* The five Reconciler actions of internal/deployment/deployment.go, the   *)
(* phase functions (Setup / Run / Finally) of the jobs they compose, the   *)
(* `go enqueue(...)` goroutine that hands a job to the queue, and the      *)
(* queue worker that executes the phases.  The job package (queue,         *)
(* enqueuer, worker loop) and the store / runtime clients are not among    *)
(* the source files; they are modelled from sections 4.1, 4.2, 4.6, 5 and  *)
(* 7 of the specification.                                                 *)
(*                                                                         *)
(* SpecWeb is the same process with every call made for one deployment;    *)
(* SpecHealth follows one health check of new containers probe by probe    *)
(* (checkNewContainersHealth).                                             *)
(* SpecNet follows concurrent callers of CreateBridgeNetwork (docker.go);  *)
(* FairSpecSaved is the process after one Save with fairly scheduled       *)
(* workers.                                                                *)
(***************************************************************************)
EXTENDS Integers, Sequences, FiniteSets, TLC

(* ------------------------------ bounds --------------------------------- *)

\* number of API calls (Save and the five Reconciler actions) in one behaviour
MaxCalls == 3

\* number of worker tasks W
NumWorkers == 2

\* queue capacity Q
QueueCap == 2

\* largest scale a saved config asks for
MaxScale == 2

\* largest value of KRANE_DEPLOYMENT_RETRY_POLICY
MaxRetry == 2

\* number of store / runtime / health failures injected in one behaviour
MaxFaults == 2

\* number of containers handed to one health check
MaxHealthList == 2

\* number of concurrent callers of CreateBridgeNetwork
NumCallers == 2

\* number of calls of CreateBridgeNetwork one caller makes
MaxNetCalls == 2

Deps == {"web", "api"}

Workers == 1..NumWorkers

(* ------------------------------ state ---------------------------------- *)

VARIABLES
    deployments,   \* store collection "deployments": name -> Config
    secretsColl,   \* names D for which the collection secrets:D exists
    jobsColl,      \* name D -> (job id -> persisted state) for each existing jobs:D
    containers,    \* runtime: D -> containers labelled deployment.name=D, in list order
    jobs,          \* every job a Reconciler action built, indexed by id; beside the
                   \* fields of job.Job: pre, the containers of its deployment when
                   \* it was marked running
    spawned,       \* ids whose `go enqueue(job)` goroutine has not run yet
    dropped,       \* ids whose Enqueue failed (error only logged)
    queue,         \* the FIFO of queued job ids
    worker,        \* worker task -> [job, pc]
    retryPolicy,   \* KRANE_DEPLOYMENT_RETRY_POLICY of this process
    putCreates,    \* whether Store.Put creates a missing collection
    faults,        \* failures injected so far
    calls,         \* API calls made so far
    lastCall,      \* the last API call and what it returned to its caller
    probing,       \* one invocation of the health check of a list of new containers
    netState       \* the networks of the docker host and the callers of CreateBridgeNetwork

vars == <<deployments, secretsColl, jobsColl, containers, jobs, spawned, dropped,
          queue, worker, retryPolicy, putCreates, faults, calls, lastCall, probing,
          netState>>

(* --------------------------- action names ------------------------------ *)

RunDeploymentAction == "RUN_DEPLOYMENT"

DeleteDeploymentAction == "DELETE_DEPLOYMENT"

StopContainersAction == "STOP_CONTAINERS"

StartContainersAction == "START_CONTAINERS"

RestartContainersAction == "RESTART_CONTAINERS"

DeploymentAction ==
    {RunDeploymentAction, DeleteDeploymentAction, StopContainersAction,
     StartContainersAction, RestartContainersAction}

(* ------------------------------ errors --------------------------------- *)

NoError == "nil"

\* section 7: only transport and store I/O failures are retried by the worker
Retriable(err) == err \in {"RuntimeUnavailable", "StoreIO"}

(* ------------------------------ config --------------------------------- *)

\* the zero Config a job of a config-less action carries
EmptyConfig(d) == [name |-> d, image |-> "", tag |-> "", scale |-> 0]

ApplyDefaults(cfg) ==
    [cfg EXCEPT !.tag = IF cfg.tag = "" THEN "latest" ELSE cfg.tag,
                !.scale = IF cfg.scale = 0 THEN 1 ELSE cfg.scale]

IsValid(cfg) == cfg.name # "" /\ cfg.image # "" /\ cfg.scale >= 1

\* the configs a caller submits to Save
SaveInputs ==
    {[name |-> d, image |-> "nginx", tag |-> t.tag, scale |-> t.scale] :
        d \in Deps,
        t \in {[tag |-> "", scale |-> 0], [tag |-> "1.26", scale |-> MaxScale],
               [tag |-> "1.26", scale |-> -1]}}

\* GetDeploymentConfig: Store.Get("deployments", d), StoreMissing on an unknown key
HasConfig(d) == d \in DOMAIN deployments

Exist(d) == HasConfig(d) /\ deployments[d] # EmptyConfig(d)

(* --------------------------- runtime port ------------------------------ *)

\* the failure (if any) the environment injects into one phase invocation:
\* the step that fails, the index of the failing call within that step, the error
NoFault == [step |-> "none", k |-> 0, err |-> NoError]

Ids(cs) == {cs[i].id : i \in DOMAIN cs}

\* GetContainersByDeployment: the containers labelled deployment.name=d
GetContainersByDeployment(d) == containers[d]

\* ContainerCreate that reads the stored config of the deployment when the
\* container is created instead of the config it is handed
ContainerCreate_StoredConfig(cfg, id, jid) ==
    LET c == IF cfg.name \in DOMAIN deployments THEN deployments[cfg.name] ELSE cfg
    IN  [id |-> id, image |-> c.image, tag |-> c.tag, state |-> "created", job |-> jid]

\* ContainerCreate(cfg): a new container of the config's image, not started
ContainerCreate(cfg, id, jid) ==
    [id |-> id, image |-> cfg.image, tag |-> cfg.tag, state |-> "created", job |-> jid]

SetState(cs, id, st) ==
    [i \in DOMAIN cs |-> IF cs[i].id = id THEN [cs[i] EXCEPT !.state = st] ELSE cs[i]]

RemoveContainer(cs, id) ==
    LET keep(c) == c.id # id IN SelectSeq(cs, keep)

\* `for i := 0; i < config.Scale; i++ { c, err := ContainerCreate(config) ... }`
RECURSIVE CreateEach(_, _, _, _, _, _)
CreateEach(cs, cfg, jid, a, i, f) ==
    IF i > cfg.scale THEN [cs |-> cs, err |-> NoError]
    ELSE IF f.step = "create" /\ f.k = i THEN [cs |-> cs, err |-> f.err]
    ELSE CreateEach(Append(cs, ContainerCreate(cfg, <<jid, a, i>>, jid)),
                    cfg, jid, a, i + 1, f)

\* `for _, c := range list { if err := c.Start(); err != nil { return err } }`
RECURSIVE StartEach(_, _, _, _)
StartEach(cs, list, i, f) ==
    IF i > Len(list) THEN [cs |-> cs, err |-> NoError]
    ELSE IF f.step = "start" /\ f.k = i THEN [cs |-> cs, err |-> f.err]
    ELSE IF list[i].id \notin Ids(cs) THEN [cs |-> cs, err |-> "RuntimeNotFound"]
    ELSE StartEach(SetState(cs, list[i].id, "running"), list, i + 1, f)

\* `for _, c := range list { if err := c.Stop(); err != nil { return err } }`
RECURSIVE StopEach(_, _, _, _)
StopEach(cs, list, i, f) ==
    IF i > Len(list) THEN [cs |-> cs, err |-> NoError]
    ELSE IF f.step = "stop" /\ f.k = i THEN [cs |-> cs, err |-> f.err]
    ELSE IF list[i].id \notin Ids(cs) THEN [cs |-> cs, err |-> "RuntimeNotFound"]
    ELSE StopEach(SetState(cs, list[i].id, "exited"), list, i + 1, f)

\* `for _, c := range list { if err := c.Remove(); err != nil { return err } }`
RECURSIVE RemoveEach(_, _, _, _)
RemoveEach(cs, list, i, f) ==
    IF i > Len(list) THEN [cs |-> cs, err |-> NoError]
    ELSE IF f.step = "remove" /\ f.k = i THEN [cs |-> cs, err |-> f.err]
    ELSE IF list[i].id \notin Ids(cs) THEN [cs |-> cs, err |-> "RuntimeNotFound"]
    ELSE RemoveEach(RemoveContainer(cs, list[i].id), list, i + 1, f)

\* a health check that reports the failure of its last probe as the
\* transport error of the runtime
RetriableContainerHealthCheck_TransportError(list, f) ==
    IF f.step = "health" /\ f.k \in 1..Len(list) THEN "RuntimeUnavailable" ELSE NoError

\* RetriableContainerHealthCheck: passes iff every container reported Ok()
\* within its budget; f names the first container that did not
RetriableContainerHealthCheck(list, f) ==
    IF f.step = "health" /\ f.k \in 1..Len(list) THEN "HealthUnstable" ELSE NoError

(* ---------------------------- store port ------------------------------- *)

\* CreateJobsCollection: idempotent create of jobs:d
CreateJobsCollection(jc, d) == IF d \in DOMAIN jc THEN jc ELSE jc @@ (d :> << >>)

\* DeleteJobsCollection: idempotent delete of jobs:d with all its keys
DeleteJobsCollection(jc, d) == [x \in DOMAIN jc \ {d} |-> jc[x]]

\* DeleteDeploymentConfig: Store.Delete("deployments", d)
DeleteDeploymentConfig(ds, d) == [x \in DOMAIN ds \ {d} |-> ds[x]]

\* Store.Put("jobs:"+d, id, record); what Put does when the collection is
\* missing is left open by the store port
PutJob(jc, d, id, st) ==
    IF d \in DOMAIN jc
    THEN [jc EXCEPT ![d] = [k \in DOMAIN jc[d] \cup {id} |-> IF k = id THEN st ELSE jc[d][k]]]
    ELSE IF putCreates THEN jc @@ (d :> (id :> st))
    ELSE jc

(* ------------------------- job phase functions ------------------------- *)

\* what one phase invocation leaves behind: the containers of the job's
\* deployment, the store collections, the job's ContainersToRemove, its error
Res(cs, sec, jc, ds, tr, err) ==
    [cs |-> cs, sec |-> sec, jc |-> jc, ds |-> ds, toRemove |-> tr, err |-> err]

\* Run: Setup
RunDeploymentSetup(j, f) ==
    LET deploymentName == j.cfg.name
        sec == secretsColl \cup {deploymentName}
        jc  == CreateJobsCollection(jobsColl, deploymentName)
        cs  == containers[j.dep]
    IN  IF f.step = "secrets"
        THEN Res(cs, secretsColl, jobsColl, deployments, j.toRemove, f.err)
        ELSE IF f.step = "jobs"
        THEN Res(cs, sec, jobsColl, deployments, j.toRemove, f.err)
        ELSE IF f.step = "list"
        THEN Res(cs, sec, jc, deployments, j.toRemove, f.err)
        ELSE Res(cs, sec, jc, deployments, GetContainersByDeployment(deploymentName),
                 NoError)

\* CreateStartCheck with a failed health check followed by a clean-up of the
\* containers the attempt created
CreateStartCheck_CleanUpUnhealthy(j, a, f) ==
    LET before  == containers[j.dep]
        created == CreateEach(before, j.cfg, j.id, a, 1, f)
        new     == SubSeq(created.cs, Len(before) + 1, Len(created.cs))
        started == StartEach(created.cs, new, 1, f)
        health  == RetriableContainerHealthCheck(new, f)
    IN  IF created.err # NoError
        THEN Res(created.cs, secretsColl, jobsColl, deployments, j.toRemove, created.err)
        ELSE IF started.err # NoError
        THEN Res(started.cs, secretsColl, jobsColl, deployments, j.toRemove, started.err)
        ELSE IF health # NoError
        THEN Res(before, secretsColl, jobsColl, deployments, j.toRemove, health)
        ELSE Res(started.cs, secretsColl, jobsColl, deployments, j.toRemove, health)

\* CreateStartCheck that retires the old generation as soon as the new
\* containers are started, before their health check
CreateStartCheck_RemoveOldBeforeHealth(j, a, f) ==
    LET before  == containers[j.dep]
        created == CreateEach(before, j.cfg, j.id, a, 1, f)
        new     == SubSeq(created.cs, Len(before) + 1, Len(created.cs))
        started == StartEach(created.cs, new, 1, f)
        removed == RemoveEach(started.cs, j.toRemove, 1, NoFault)
        health  == RetriableContainerHealthCheck(new, f)
    IN  IF created.err # NoError
        THEN Res(created.cs, secretsColl, jobsColl, deployments, j.toRemove, created.err)
        ELSE IF started.err # NoError
        THEN Res(started.cs, secretsColl, jobsColl, deployments, j.toRemove, started.err)
        ELSE Res(removed.cs, secretsColl, jobsColl, deployments, j.toRemove, health)

\* the part of Run after the image pull, shared with Restart: create, start,
\* health-check
CreateStartCheck(j, a, f) ==
    LET before  == containers[j.dep]
        created == CreateEach(before, j.cfg, j.id, a, 1, f)
        new     == SubSeq(created.cs, Len(before) + 1, Len(created.cs))
        started == StartEach(created.cs, new, 1, f)
        health  == RetriableContainerHealthCheck(new, f)
    IN  IF created.err # NoError
        THEN Res(created.cs, secretsColl, jobsColl, deployments, j.toRemove, created.err)
        ELSE IF started.err # NoError
        THEN Res(started.cs, secretsColl, jobsColl, deployments, j.toRemove, started.err)
        ELSE Res(started.cs, secretsColl, jobsColl, deployments, j.toRemove, health)

\* Run: Run with the error of PullImage only logged: the attempt goes on to
\* create and start the containers and reports the pull error at its end
RunDeploymentRun_PullErrorNotReturned(j, a, f) ==
    IF f.step = "pull"
    THEN [CreateStartCheck(j, a, NoFault) EXCEPT !.err = f.err]
    ELSE CreateStartCheck(j, a, f)

\* Run: Run (attempt a)
RunDeploymentRun(j, a, f) ==
    IF f.step = "pull"
    THEN Res(containers[j.dep], secretsColl, jobsColl, deployments, j.toRemove, f.err)
    ELSE CreateStartCheck(j, a, f)

\* a Finally that lists the containers of the deployment again and removes
\* what it finds instead of the snapshot of Setup
RunDeploymentFinally_RemoveListed(j, f) ==
    LET r == RemoveEach(containers[j.dep], GetContainersByDeployment(j.dep), 1, f)
    IN  Res(r.cs, secretsColl, jobsColl, deployments, j.toRemove, r.err)

\* Run: Finally
RunDeploymentFinally(j, f) ==
    LET r == RemoveEach(containers[j.dep], j.toRemove, 1, f)
    IN  Res(r.cs, secretsColl, jobsColl, deployments, j.toRemove, r.err)

\* Delete: Run
DeleteDeploymentRun(j, a, f) ==
    LET cs == containers[j.dep]
        r  == RemoveEach(cs, GetContainersByDeployment(j.dep), 1, f)
    IN  IF f.step = "list"
        THEN Res(cs, secretsColl, jobsColl, deployments, j.toRemove, f.err)
        ELSE Res(r.cs, secretsColl, jobsColl, deployments, j.toRemove, r.err)

\* Delete: Finally
DeleteDeploymentFinally(j, f) ==
    LET cs  == containers[j.dep]
        sec == secretsColl \ {j.dep}
        jc  == DeleteJobsCollection(jobsColl, j.dep)
        ds  == DeleteDeploymentConfig(deployments, j.dep)
    IN  IF f.step = "secrets"
        THEN Res(cs, secretsColl, jobsColl, deployments, j.toRemove, f.err)
        ELSE IF f.step = "jobs"
        THEN Res(cs, sec, jobsColl, deployments, j.toRemove, f.err)
        ELSE IF f.step = "config"
        THEN Res(cs, sec, jc, deployments, j.toRemove, f.err)
        ELSE Res(cs, sec, jc, ds, j.toRemove, NoError)

\* Start: Run
StartContainersRun(j, a, f) ==
    LET cs == containers[j.dep]
        r  == StartEach(cs, GetContainersByDeployment(j.dep), 1, f)
    IN  IF f.step = "list"
        THEN Res(cs, secretsColl, jobsColl, deployments, j.toRemove, f.err)
        ELSE IF Len(cs) = 0
        THEN Res(cs, secretsColl, jobsColl, deployments, j.toRemove, "NoContainers")
        ELSE Res(r.cs, secretsColl, jobsColl, deployments, j.toRemove, r.err)

\* Stop: Run
StopContainersRun(j, a, f) ==
    LET cs == containers[j.dep]
        r  == StopEach(cs, GetContainersByDeployment(j.dep), 1, f)
    IN  IF f.step = "list"
        THEN Res(cs, secretsColl, jobsColl, deployments, j.toRemove, f.err)
        ELSE IF Len(cs) = 0
        THEN Res(cs, secretsColl, jobsColl, deployments, j.toRemove, "NoContainers")
        ELSE Res(r.cs, secretsColl, jobsColl, deployments, j.toRemove, r.err)

\* Restart: Setup
RestartContainersSetup(j, f) ==
    IF f.step = "list"
    THEN Res(containers[j.dep], secretsColl, jobsColl, deployments, j.toRemove, f.err)
    ELSE Res(containers[j.dep], secretsColl, jobsColl, deployments,
             GetContainersByDeployment(j.cfg.name), NoError)

\* Restart: Run (attempt a); the image is not pulled
RestartContainersRun(j, a, f) == CreateStartCheck(j, a, f)

\* Restart: Finally
RestartContainersFinally(j, f) ==
    LET r == RemoveEach(containers[j.dep], j.toRemove, 1, f)
    IN  Res(r.cs, secretsColl, jobsColl, deployments, j.toRemove, r.err)

(* ------------------- the failures a phase can meet --------------------- *)

Fault(step, k, err) == [step |-> step, k |-> k, err |-> err]

RuntimeFaults(step, n) ==
    {Fault(step, k, e) : k \in 1..n, e \in {"RuntimeUnavailable", "RuntimeConflict"}}

CreateStartCheckFaults(j) ==
    RuntimeFaults("create", j.cfg.scale) \cup RuntimeFaults("start", j.cfg.scale)
        \cup {Fault("health", k, "HealthUnstable") : k \in 1..j.cfg.scale}

SetupFaults(j) ==
    IF j.type = RunDeploymentAction
    THEN {Fault("secrets", 1, "StoreIO"), Fault("jobs", 1, "StoreIO"),
          Fault("list", 1, "RuntimeUnavailable")}
    ELSE {Fault("list", 1, "RuntimeUnavailable")}

RunFaults(j) ==
    IF j.type = RunDeploymentAction
    THEN {Fault("pull", 1, "RuntimeImage"), Fault("pull", 1, "RuntimeUnavailable")}
             \cup CreateStartCheckFaults(j)
    ELSE IF j.type = RestartContainersAction THEN CreateStartCheckFaults(j)
    ELSE {Fault("list", 1, "RuntimeUnavailable")}
             \cup RuntimeFaults(IF j.type = DeleteDeploymentAction THEN "remove"
                                ELSE IF j.type = StartContainersAction THEN "start"
                                ELSE "stop",
                                Len(containers[j.dep]))

FinallyFaults(j) ==
    IF j.type = DeleteDeploymentAction
    THEN {Fault("secrets", 1, "StoreIO"), Fault("jobs", 1, "StoreIO"),
          Fault("config", 1, "StoreIO")}
    ELSE RuntimeFaults("remove", Len(j.toRemove))

(* --------------------------- phase dispatch ---------------------------- *)

HasSetup(j) == j.type \in {RunDeploymentAction, RestartContainersAction}

HasFinally(j) ==
    j.type \in {RunDeploymentAction, RestartContainersAction, DeleteDeploymentAction}

SetupOf(j, f) ==
    IF j.type = RunDeploymentAction THEN RunDeploymentSetup(j, f)
    ELSE RestartContainersSetup(j, f)

RunOf(j, a, f) ==
    IF j.type = RunDeploymentAction THEN RunDeploymentRun(j, a, f)
    ELSE IF j.type = DeleteDeploymentAction THEN DeleteDeploymentRun(j, a, f)
    ELSE IF j.type = StartContainersAction THEN StartContainersRun(j, a, f)
    ELSE IF j.type = StopContainersAction THEN StopContainersRun(j, a, f)
    ELSE RestartContainersRun(j, a, f)

FinallyOf(j, f) ==
    IF j.type = RunDeploymentAction THEN RunDeploymentFinally(j, f)
    ELSE IF j.type = DeleteDeploymentAction THEN DeleteDeploymentFinally(j, f)
    ELSE RestartContainersFinally(j, f)

(* ------------------------------- Init ---------------------------------- *)

Idle == [job |-> 0, pc |-> "idle"]

\* no health check is being followed probe by probe
NoCheck == [okAt |-> << >>, c |-> 0, i |-> 0, log |-> << >>, err |-> "none", offender |-> 0]

\* an API call as its caller saw it: the action, the name it was called with,
\* whether deployments/<name> existed at the call, the error returned and the
\* id of the job the call built (0: none)
Call(op, d, err, jid) ==
    [op |-> op, dep |-> d, existed |-> d \in DOMAIN deployments, err |-> err,
     job |-> jid]

\* the process after start-up: empty store, no container, no job
InitProcess ==
    /\ deployments = << >>
    /\ secretsColl = {}
    /\ jobsColl = << >>
    /\ containers = [d \in Deps |-> << >>]
    /\ jobs = << >>
    /\ spawned = {}
    /\ dropped = {}
    /\ queue = << >>
    /\ worker = [w \in Workers |-> Idle]
    /\ retryPolicy \in 0..MaxRetry
    /\ putCreates \in BOOLEAN
    /\ faults = 0
    /\ calls = 0
    /\ lastCall = Call("none", "", NoError, 0)

\* no network on the docker host and no caller of CreateBridgeNetwork
NoNetworks == [networks |-> << >>, caller |-> << >>]

Init == InitProcess /\ probing = NoCheck /\ netState = NoNetworks

(* ------------------------- Reconciler and API -------------------------- *)

\* Save: applyDefaults, isValid, Store.Put
Save(config) ==
    LET c == ApplyDefaults(config)
    IN  /\ calls < MaxCalls
        /\ calls' = calls + 1
        /\ IF IsValid(c)
           THEN /\ deployments' =
                       [d \in DOMAIN deployments \cup {c.name} |->
                           IF d = c.name THEN c ELSE deployments[d]]
                /\ lastCall' = Call("Save", c.name, NoError, 0)
           ELSE /\ deployments' = deployments
                /\ lastCall' = Call("Save", c.name, "ValidationError", 0)
        /\ UNCHANGED <<secretsColl, jobsColl, containers, jobs, spawned, dropped,
                       queue, worker, retryPolicy, putCreates, faults, probing, netState>>

\* a job built with a retry policy of at least one attempt whatever the
\* environment says
NewJob_AtLeastOneAttempt(id, d, type, cfg) ==
    [id |-> id, dep |-> d, type |-> type,
     retry |-> IF retryPolicy = 0 THEN 1 ELSE retryPolicy, cfg |-> cfg,
     toRemove |-> << >>, state |-> "queued", attempts |-> 0, runOk |-> FALSE,
     error |-> NoError, phaseLog |-> << >>, pre |-> << >>]

\* job.Job{ID: uuid, Deployment: d, Type: type, RetryPolicy: env, Args: ...}
NewJob(id, d, type, cfg) ==
    [id |-> id, dep |-> d, type |-> type, retry |-> retryPolicy, cfg |-> cfg,
     toRemove |-> << >>, state |-> "queued", attempts |-> 0, runOk |-> FALSE,
     error |-> NoError, phaseLog |-> << >>, pre |-> << >>]

\* `go enqueue(job.Job{...}); return nil`: the job is handed to a goroutine
\* and the action returns before the goroutine has run
GoEnqueue(op, d, type, cfg) ==
    /\ calls < MaxCalls
    /\ calls' = calls + 1
    /\ jobs' = Append(jobs, NewJob(Len(jobs) + 1, d, type, cfg))
    /\ spawned' = spawned \cup {Len(jobs) + 1}
    /\ lastCall' = Call(op, d, NoError, Len(jobs) + 1)
    /\ UNCHANGED <<deployments, secretsColl, jobsColl, containers, dropped, queue,
                   worker, retryPolicy, putCreates, faults,
                   probing, netState>>

\* the action returns the error of GetDeploymentConfig and builds no job
ReturnMissing(op, d) ==
    /\ calls < MaxCalls
    /\ calls' = calls + 1
    /\ lastCall' = Call(op, d, "DeploymentMissing", 0)
    /\ UNCHANGED <<deployments, secretsColl, jobsColl, containers, jobs, spawned,
                   dropped, queue, worker, retryPolicy, putCreates, faults,
                   probing, netState>>

Run(d) ==
    IF HasConfig(d)
    THEN GoEnqueue("Run", deployments[d].name, RunDeploymentAction, deployments[d])
    ELSE ReturnMissing("Run", d)

Delete(d) == GoEnqueue("Delete", d, DeleteDeploymentAction, EmptyConfig(d))

StartContainers(d) == GoEnqueue("Start", d, StartContainersAction, EmptyConfig(d))

StopContainers(d) == GoEnqueue("Stop", d, StopContainersAction, EmptyConfig(d))

RestartContainers(d) ==
    IF HasConfig(d)
    THEN GoEnqueue("Restart", d, RestartContainersAction, deployments[d])
    ELSE ReturnMissing("Restart", d)

\* the goroutine of `go enqueue(j)`: Enqueuer.Enqueue, its error only logged
enqueue(jid) ==
    /\ jid \in spawned
    /\ spawned' = spawned \ {jid}
    /\ IF Len(queue) >= QueueCap
       THEN dropped' = dropped \cup {jid} /\ queue' = queue
       ELSE queue' = Append(queue, jid) /\ dropped' = dropped
    /\ UNCHANGED <<deployments, secretsColl, jobsColl, containers, jobs, worker,
                   retryPolicy, putCreates, faults, calls, lastCall,
                   probing, netState>>

(* ------------------------------ worker --------------------------------- *)

\* the per-deployment lock is held by the worker that executes a job of d
Locked(d) == \E w \in Workers : worker[w].job # 0 /\ jobs[worker[w].job].dep = d

\* a worker that takes the next job without looking at the lock
Eligible_NoLock(jid) == jid \in DOMAIN jobs

\* a worker may take a queued job only if the lock of its deployment is free
Eligible(jid) == ~Locked(jobs[jid].dep)

\* position in the queue of the first job a worker may take (0: none)
NextEligible ==
    LET ok == {i \in DOMAIN queue : Eligible(queue[i])}
    IN  IF ok = {} THEN 0 ELSE CHOOSE i \in ok : \A k \in ok : i <= k

RemoveAt(q, i) == SubSeq(q, 1, i - 1) \o SubSeq(q, i + 1, Len(q))

\* steps 1-3: dequeue, acquire the lock of job.deployment, mark running, persist
Dequeue(w) ==
    /\ worker[w].pc = "idle"
    /\ NextEligible # 0
    /\ LET jid == queue[NextEligible]
           j   == jobs[jid]
       IN  /\ queue' = RemoveAt(queue, NextEligible)
           /\ jobs' = [jobs EXCEPT ![jid].state = "running",
                                   ![jid].pre = containers[j.dep]]
           /\ jobsColl' = PutJob(jobsColl, j.dep, jid, "running")
           /\ worker' = [worker EXCEPT ![w] =
                             [job |-> jid, pc |-> IF HasSetup(j) THEN "setup" ELSE "run"]]
    /\ UNCHANGED <<deployments, secretsColl, containers, spawned, dropped,
                   retryPolicy, putCreates, faults, calls, lastCall,
                   probing, netState>>

\* a phase may meet a failure as long as the budget of failures lasts
Inject(f) ==
    /\ f # NoFault => faults < MaxFaults
    /\ faults' = IF f = NoFault THEN faults ELSE faults + 1

\* the effects of one phase invocation on the runtime and the store
Apply(j, r) ==
    /\ containers' = [containers EXCEPT ![j.dep] = r.cs]
    /\ secretsColl' = r.sec
    /\ jobsColl' = r.jc
    /\ deployments' = r.ds

Log(j, phase, f, r) ==
    Append(j.phaseLog, [phase |-> phase, step |-> f.step, k |-> f.k, err |-> r.err])

\* where the worker goes once the Run phase is over: Finally runs iff Run
\* succeeded, and unconditionally for Delete
AfterRun(j, ok) ==
    IF HasFinally(j) /\ (ok \/ j.type = DeleteDeploymentAction) THEN "finally"
    ELSE "finish"

\* step 4: Setup, not retried; its failure fails the job before Run
Setup(w) ==
    /\ worker[w].pc = "setup"
    /\ LET j == jobs[worker[w].job]
       IN  \E f \in SetupFaults(j) \cup {NoFault} :
             LET r == SetupOf(j, f)
             IN  /\ Inject(f)
                 /\ Apply(j, r)
                 /\ jobs' = [jobs EXCEPT ![j.id] =
                        [j EXCEPT !.toRemove = r.toRemove,
                                  !.error = r.err,
                                  !.phaseLog = Log(j, "setup", f, r)]]
                 /\ worker' = [worker EXCEPT ![w].pc =
                        IF r.err = NoError THEN "run" ELSE "finish"]
    /\ UNCHANGED <<spawned, dropped, queue, retryPolicy, putCreates, calls, lastCall,
                   probing, netState>>

\* a worker that goes on retrying a retriable failure whatever the number of
\* attempts made
Retry_NoAttemptLimit(j, err) == Retriable(err)

\* whether the worker makes another Run attempt after a failed one
Retry(j, err) == Retriable(err) /\ j.attempts + 1 < j.retry

\* step 5: one Run attempt
RunAttempt(w) ==
    /\ worker[w].pc = "run"
    /\ LET j == jobs[worker[w].job]
       IN  /\ j.attempts < j.retry
           /\ \E f \in RunFaults(j) \cup {NoFault} :
                \E r \in {RunOf(j, j.attempts + 1, f)} :
                    /\ Inject(f)
                    /\ Apply(j, r)
                    /\ jobs' = [jobs EXCEPT ![j.id] =
                           [j EXCEPT !.attempts = j.attempts + 1,
                                     !.runOk = (r.err = NoError),
                                     !.error = r.err,
                                     !.phaseLog = Log(j, "run", f, r)]]
                    /\ worker' = [worker EXCEPT ![w].pc =
                           IF r.err = NoError THEN AfterRun(j, TRUE)
                           ELSE IF Retry(j, r.err) THEN "run"
                           ELSE AfterRun(j, FALSE)]
    /\ UNCHANGED <<spawned, dropped, queue, retryPolicy, putCreates, calls, lastCall,
                   probing, netState>>

\* step 5 with retryPolicy = 0: the loop body never executes
RunNoAttempt(w) ==
    /\ worker[w].pc = "run"
    /\ LET j == jobs[worker[w].job]
       IN  /\ j.retry = 0
           /\ worker' = [worker EXCEPT ![w].pc = AfterRun(j, FALSE)]
    /\ UNCHANGED <<deployments, secretsColl, jobsColl, containers, jobs, spawned,
                   dropped, queue, retryPolicy, putCreates, faults, calls, lastCall,
                   probing, netState>>

\* step 6: Finally, not retried; its error is recorded, the verdict of Run stays
Finally(w) ==
    /\ worker[w].pc = "finally"
    /\ LET j == jobs[worker[w].job]
       IN  \E f \in FinallyFaults(j) \cup {NoFault} :
             LET r == FinallyOf(j, f)
             IN  /\ Inject(f)
                 /\ Apply(j, r)
                 /\ jobs' = [jobs EXCEPT ![j.id].phaseLog = Log(j, "finally", f, r)]
                 /\ worker' = [worker EXCEPT ![w].pc = "finish"]
    /\ UNCHANGED <<spawned, dropped, queue, retryPolicy, putCreates, calls, lastCall,
                   probing, netState>>

\* a worker that marks the job failed when the last phase it executed,
\* Finally included, returned an error
Finish_LastPhaseDecides(w) ==
    /\ worker[w].pc = "finish"
    /\ LET j  == jobs[worker[w].job]
           ok == j.runOk /\ j.phaseLog[Len(j.phaseLog)].err = NoError
           st == IF ok THEN "succeeded" ELSE "failed"
       IN  /\ jobs' = [jobs EXCEPT ![j.id].state = st]
           /\ jobsColl' = PutJob(jobsColl, j.dep, j.id, st)
    /\ worker' = [worker EXCEPT ![w] = Idle]
    /\ UNCHANGED <<deployments, secretsColl, containers, spawned, dropped, queue,
                   retryPolicy, putCreates, faults, calls, lastCall,
                   probing, netState>>

\* step 7: mark the terminal state, persist to jobs:<deployment>, release the lock
Finish(w) ==
    /\ worker[w].pc = "finish"
    /\ LET j  == jobs[worker[w].job]
           st == IF j.runOk THEN "succeeded" ELSE "failed"
       IN  /\ jobs' = [jobs EXCEPT ![j.id].state = st]
           /\ jobsColl' = PutJob(jobsColl, j.dep, j.id, st)
    /\ worker' = [worker EXCEPT ![w] = Idle]
    /\ UNCHANGED <<deployments, secretsColl, containers, spawned, dropped, queue,
                   retryPolicy, putCreates, faults, calls, lastCall,
                   probing, netState>>

(* ------------------------------- Next ---------------------------------- *)

Next ==
    \/ \E config \in SaveInputs : Save(config)
    \/ \E d \in Deps : Run(d)
    \/ \E d \in Deps : Delete(d)
    \/ \E d \in Deps : StartContainers(d)
    \/ \E d \in Deps : StopContainers(d)
    \/ \E d \in Deps : RestartContainers(d)
    \/ \E jid \in spawned : enqueue(jid)
    \/ \E w \in Workers : Dequeue(w)
    \/ \E w \in Workers : Setup(w)
    \/ \E w \in Workers : RunAttempt(w)
    \/ \E w \in Workers : RunNoAttempt(w)
    \/ \E w \in Workers : Finally(w)
    \/ \E w \in Workers : Finish(w)

Spec == Init /\ [][Next]_vars

\* the same process with every API call made for one deployment
OneDeployment == {"web"}

NextWeb ==
    \/ \E config \in SaveInputs : config.name \in OneDeployment /\ Save(config)
    \/ \E d \in OneDeployment : Run(d)
    \/ \E d \in OneDeployment : Delete(d)
    \/ \E d \in OneDeployment : StartContainers(d)
    \/ \E d \in OneDeployment : StopContainers(d)
    \/ \E d \in OneDeployment : RestartContainers(d)
    \/ \E jid \in spawned : enqueue(jid)
    \/ \E w \in Workers : Dequeue(w)
    \/ \E w \in Workers : Setup(w)
    \/ \E w \in Workers : RunAttempt(w)
    \/ \E w \in Workers : RunNoAttempt(w)
    \/ \E w \in Workers : Finally(w)
    \/ \E w \in Workers : Finish(w)

SpecWeb == Init /\ [][NextWeb]_vars

\* the worker loop of task w: whichever of its steps is possible
WorkerStep(w) ==
    \/ Dequeue(w)
    \/ Setup(w)
    \/ RunAttempt(w)
    \/ RunNoAttempt(w)
    \/ Finally(w)
    \/ Finish(w)

\* every worker task is scheduled again and again: when its loop can take a
\* step and stays able to, it eventually takes one
WorkerFairness == \A w \in Workers : WF_vars(WorkerStep(w))

\* the process after one accepted Save, of a config for the one deployment
\* that leaves tag and scale to their defaults
InitSaved ==
    \E config \in SaveInputs :
        /\ config.name \in OneDeployment
        /\ config.tag = "" /\ config.scale = 0
        /\ IsValid(ApplyDefaults(config))
        /\ deployments = (config.name :> ApplyDefaults(config))
        /\ secretsColl = {}
        /\ jobsColl = << >>
        /\ containers = [d \in Deps |-> << >>]
        /\ jobs = << >>
        /\ spawned = {}
        /\ dropped = {}
        /\ queue = << >>
        /\ worker = [w \in Workers |-> Idle]
        /\ retryPolicy \in 0..MaxRetry
        /\ putCreates \in BOOLEAN
        /\ faults = 0
        /\ calls = 1
        /\ lastCall = [op |-> "Save", dep |-> config.name, existed |-> FALSE,
                       err |-> NoError, job |-> 0]
        /\ probing = NoCheck
        /\ netState = NoNetworks

FairSpecSaved == InitSaved /\ [][NextWeb]_vars /\ WorkerFairness

(* --------------------------- health check ------------------------------ *)

\* `pollRetry := 10` of checkNewContainersHealth
pollRetry == 10

\* `retries := 10`, the budget Run hands to RetriableContainerHealthCheck
retries == 10

processVars ==
    <<deployments, secretsColl, jobsColl, containers, jobs, spawned, dropped,
      queue, worker, retryPolicy, putCreates, faults, calls, lastCall>>

\* what the containers of a list answer: okAt[c] is the index of the first
\* probe of container c to which Ok() answers true without error; every
\* earlier probe answers false or an error; pollRetry + 1: no probe of the
\* loop is answered true
HealthInputs ==
    UNION {[1..n -> 0..(pollRetry + 1)] : n \in 0..MaxHealthList}

\* the health check is entered with the list of the new containers
StartCheck(okAt) ==
    [okAt |-> okAt, c |-> 1, i |-> 0, log |-> << >>, err |-> "checking", offender |-> 0]

InitHealth ==
    /\ InitProcess
    /\ probing \in {StartCheck(okAt) : okAt \in HealthInputs}
    /\ netState = NoNetworks

\* one pass of the inner loop `for i := 0; i <= pollRetry; i++`: sleep 10*i
\* seconds, call Ok(); on an error or a false answer return the error when
\* i == pollRetry and continue otherwise; on a true answer break to the next
\* container
Probe ==
    /\ probing.err = "checking"
    /\ probing.c <= Len(probing.okAt)
    /\ LET c  == probing.c
           i  == probing.i
           ok == probing.okAt[c] <= i
           ev == [c |-> c, i |-> i, sleep |-> 10 * i, ok |-> ok]
       IN  probing' =
               IF ok
               THEN [probing EXCEPT !.log = Append(@, ev), !.c = c + 1, !.i = 0]
               ELSE IF i = pollRetry
               THEN [probing EXCEPT !.log = Append(@, ev), !.err = "HealthUnstable",
                                   !.offender = c]
               ELSE [probing EXCEPT !.log = Append(@, ev), !.i = i + 1]
    /\ UNCHANGED <<processVars, netState>>

\* the outer loop `for _, newContainer := range *newContainers` is over
ReturnNil ==
    /\ probing.err = "checking"
    /\ probing.c > Len(probing.okAt)
    /\ probing' = [probing EXCEPT !.err = NoError]
    /\ UNCHANGED <<processVars, netState>>

NextHealth == Probe \/ ReturnNil

SpecHealth == InitHealth /\ [][NextHealth]_vars

(* ----------------------------- networks -------------------------------- *)

Callers == 1..NumCallers

NetNames == {"krane", "edge"}

\* a caller that is not inside CreateBridgeNetwork; ret and err are what its
\* last call returned (ret 0: the zero NetworkCreateResponse)
CallerIdle == [pc |-> "idle", name |-> "", calls |-> 0, ret |-> 0, err |-> NoError]

InitNet ==
    /\ InitProcess
    /\ probing = NoCheck
    /\ netState = [networks |-> << >>, caller |-> [c \in Callers |-> CallerIdle]]

\* the id (position) of the first network of that name on the host, 0 if none:
\* `for _, net := range nets { if net.Name == name { kNet = net; break } }`
GetNetworkByName(name) ==
    LET hit == {i \in DOMAIN netState.networks : netState.networks[i] = name}
    IN  IF hit = {} THEN 0 ELSE CHOOSE i \in hit : \A k \in hit : i <= k

\* a caller enters CreateBridgeNetwork(ctx, name)
CallCreateBridgeNetwork(c, name) ==
    /\ netState.caller[c].pc = "idle"
    /\ netState.caller[c].calls < MaxNetCalls
    /\ netState' = [netState EXCEPT !.caller[c] =
           [pc |-> "check", name |-> name, calls |-> @.calls + 1, ret |-> 0,
            err |-> NoError]]
    /\ UNCHANGED <<processVars, probing>>

\* `kNet, err := GetNetworkByName(ctx, name)`; `if kNet.ID != "" { return
\* NetworkCreateResponse{ID: kNet.ID}, nil }`, otherwise go on to create
CheckExisting(c) ==
    /\ netState.caller[c].pc = "check"
    /\ LET id == GetNetworkByName(netState.caller[c].name)
       IN  netState' =
               IF id # 0
               THEN [netState EXCEPT !.caller[c].pc = "idle", !.caller[c].ret = id]
               ELSE [netState EXCEPT !.caller[c].pc = "create"]
    /\ UNCHANGED <<processVars, probing>>

\* `return dkrClient.NetworkCreate(*ctx, name, NetworkCreate{Driver: "bridge",
\* CheckDuplicate: true})`: the daemon refuses a name that exists by now
NetworkCreate(c) ==
    /\ netState.caller[c].pc = "create"
    /\ LET name == netState.caller[c].name
       IN  netState' =
               IF GetNetworkByName(name) # 0
               THEN [netState EXCEPT !.caller[c].pc = "idle",
                                     !.caller[c].err = "RuntimeConflict"]
               ELSE [netState EXCEPT !.networks = Append(@, name),
                                     !.caller[c].pc = "idle",
                                     !.caller[c].ret = Len(netState.networks) + 1]
    /\ UNCHANGED <<processVars, probing>>

NextNet ==
    \/ \E c \in Callers : \E name \in NetNames : CallCreateBridgeNetwork(c, name)
    \/ \E c \in Callers : CheckExisting(c)
    \/ \E c \in Callers : NetworkCreate(c)

SpecNet == InitNet /\ [][NextNet]_vars

(* ------------------------------ claims --------------------------------- *)

Terminal == {"succeeded", "failed"}

JobsOf(d) == {i \in DOMAIN jobs : jobs[i].dep = d}

\* job jid is marked succeeded in this step
Succeeds(jid) == jobs[jid].state = "running" /\ jobs'[jid].state = "succeeded"

\* job jid reaches a terminal state in this step
Ends(jid) == jobs[jid].state = "running" /\ jobs'[jid].state \in Terminal

RunEntries(j) == {i \in DOMAIN j.phaseLog : j.phaseLog[i].phase = "run"}

\* C1: in every reachable state, for every deployment D, at most one job of
\* D is in state running, whatever the number of workers and the interleaving
\* of the Reconciler calls.
C1_AtMostOneRunning ==
    \A d \in Deps : Cardinality({i \in JobsOf(d) : jobs[i].state = "running"}) <= 1

\* C1 witness: a job of D is running while another job of D waits in the queue
\* and a worker is idle: only the lock of D keeps the second job from running.
C1_Witness ==
    \E w1, w2 \in Workers :
        /\ worker[w1].job # 0
        /\ worker[w2].pc = "idle"
        /\ \E i \in DOMAIN queue : jobs[queue[i]].dep = jobs[worker[w1].job].dep

\* C2: jobs of one deployment execute in the order of the Reconciler calls
\* that built them: when the call for J1 returned before the call for J2 was
\* made (ids are given in call order) and both were accepted by the queue, J2
\* does not start before J1 is terminal.
C2_CallOrder ==
    \A j1, j2 \in DOMAIN jobs :
        (/\ j1 < j2
         /\ jobs[j1].dep = jobs[j2].dep
         /\ j1 \notin dropped
         /\ jobs[j2].state # "queued")
            => jobs[j1].state \in Terminal

\* C3: whenever a Run job for D reaches state succeeded, the runtime holds
\* exactly cfg.scale containers labelled D, all running and all created from
\* the job's cfg.image:cfg.tag.
C3_RunSucceededExactScale ==
    [][\A jid \in DOMAIN jobs :
          (Succeeds(jid) /\ jobs[jid].type = RunDeploymentAction) =>
             LET cs  == containers'[jobs[jid].dep]
                 cfg == jobs[jid].cfg
             IN  /\ Len(cs) = cfg.scale
                 /\ \A i \in DOMAIN cs :
                       /\ cs[i].state = "running"
                       /\ cs[i].image = cfg.image
                       /\ cs[i].tag = cfg.tag]_vars

\* C4: whenever a Delete job for D reaches state succeeded, no container
\* labelled D exists, deployments/D is absent and neither secrets:D nor jobs:D
\* exists, the worker having persisted the terminal state.
C4_DeleteSucceededAllGone ==
    [][\A jid \in DOMAIN jobs :
          (Succeeds(jid) /\ jobs[jid].type = DeleteDeploymentAction) =>
             LET d == jobs[jid].dep
             IN  /\ containers'[d] = << >>
                 /\ d \notin DOMAIN deployments'
                 /\ d \notin secretsColl'
                 /\ d \notin DOMAIN jobsColl']_vars

\* the image pull failed in every Run attempt of the job, and there was one
PullFailedEveryAttempt(j) ==
    /\ j.attempts >= 1
    /\ \A i \in RunEntries(j) : j.phaseLog[i].step = "pull"

\* C5: if the image pull fails in every Run attempt of a Run job for D, then
\* when the job is terminal it is failed and the containers labelled D are
\* the ones (same ids, same states) that existed before the job started.
C5_PullFailureLeavesDeploymentUnchanged ==
    [][\A jid \in DOMAIN jobs :
          (/\ Ends(jid)
           /\ jobs[jid].type = RunDeploymentAction
           /\ PullFailedEveryAttempt(jobs[jid])) =>
             /\ jobs'[jid].state = "failed"
             /\ containers'[jobs[jid].dep] = jobs[jid].pre]_vars

\* C5 witness: a failed Run job whose two attempts both failed at the pull,
\* for a deployment that had containers before the job started.
C5_Witness ==
    \E jid \in DOMAIN jobs :
        /\ jobs[jid].type = RunDeploymentAction
        /\ jobs[jid].state = "failed"
        /\ jobs[jid].attempts = 2
        /\ PullFailedEveryAttempt(jobs[jid])
        /\ jobs[jid].pre # << >>

\* the health check of the new containers failed in a Run attempt of the job
HealthCheckFailed(j) ==
    \E i \in RunEntries(j) : j.phaseLog[i].err = "HealthUnstable"

Elems(cs) == {cs[i] : i \in DOMAIN cs}

\* the a-th Run attempt of job j, if the job made that many
AttemptEntry(j, a) ==
    LET before == IF HasSetup(j) THEN 1 ELSE 0 IN j.phaseLog[before + a]

\* ids of the containers the ContainerCreate calls of the job's Run attempts
\* returned: none in an attempt that failed at the pull, the ones before the
\* failing call in an attempt that failed creating, cfg.scale otherwise
CreatedBy(j) ==
    {id \in {<<j.id, a, i>> : a \in 1..j.attempts, i \in 1..j.cfg.scale} :
        LET e == AttemptEntry(j, id[2])
        IN  /\ e.step # "pull"
            /\ e.step = "create" => id[3] < e.k}

\* C6: if the health check of the new containers fails in a Run job for D, the
\* job ends failed, every container the job created is still in the runtime
\* and every container of D snapshotted by its Setup is still there in the
\* same state.
C6_HealthFailureLeavesBothGenerations ==
    [][\A jid \in DOMAIN jobs :
          (/\ Ends(jid)
           /\ jobs[jid].type = RunDeploymentAction
           /\ HealthCheckFailed(jobs[jid])) =>
             LET cs == containers'[jobs[jid].dep]
             IN  /\ jobs'[jid].state = "failed"
                 /\ CreatedBy(jobs[jid]) \subseteq Ids(cs)
                 /\ Elems(jobs[jid].toRemove) \subseteq Elems(cs)]_vars

\* C6 witness: a failed Run job whose health check failed, with new containers
\* created by it and an old generation snapshotted by its Setup.
C6_Witness ==
    \E jid \in DOMAIN jobs :
        /\ jobs[jid].type = RunDeploymentAction
        /\ jobs[jid].state = "failed"
        /\ HealthCheckFailed(jobs[jid])
        /\ CreatedBy(jobs[jid]) # {}
        /\ jobs[jid].toRemove # << >>

\* C7: after two consecutive Run jobs for D that both reach succeeded with the
\* same config, exactly cfg.scale containers labelled D exist and all of them
\* were created by the second job.
C7_RunIdempotent ==
    [][\A j1, j2 \in DOMAIN jobs :
          (/\ j1 # j2
           /\ jobs[j1].dep = jobs[j2].dep
           /\ jobs[j1].type = RunDeploymentAction
           /\ jobs[j2].type = RunDeploymentAction
           /\ jobs[j1].cfg = jobs[j2].cfg
           /\ jobs[j1].state = "succeeded"
           /\ Succeeds(j2)
           /\ \A j3 \in JobsOf(jobs[j1].dep) \ {j1, j2} : jobs[j3].state = "queued") =>
             LET cs == containers'[jobs[j2].dep]
             IN  /\ Len(cs) = jobs[j2].cfg.scale
                 /\ \A i \in DOMAIN cs : cs[i].job = j2]_vars

ReconcilerOps == {"Run", "Delete", "Start", "Stop", "Restart"}

\* C8: each of the five Reconciler actions called with a name that has no
\* config in the deployments collection returns DeploymentMissing to its
\* caller and builds no job.
C8_MissingDeploymentRejected ==
    (lastCall.op \in ReconcilerOps /\ ~lastCall.existed) =>
        (lastCall.err = "DeploymentMissing" /\ lastCall.job = 0)

\* C9: a Reconciler action never returns success for a job that was not
\* enqueued: every job of the job table was built by a call that returned nil,
\* so none of them is ever refused by the full queue.
C9_NoSuccessWithoutEnqueue == \A jid \in DOMAIN jobs : jid \notin dropped

\* C10: in every state in which deployments/D has just been removed, no
\* container labelled D exists and neither secrets:D nor jobs:D exists.
C10_ConfigRemovedLast ==
    [][\A d \in Deps :
          (d \in DOMAIN deployments /\ d \notin DOMAIN deployments') =>
             /\ containers'[d] = << >>
             /\ d \notin secretsColl'
             /\ d \notin DOMAIN jobsColl']_vars

\* C11: saving a config whose scale is 0 is rejected: Save returns a
\* validation error and the deployments collection is left unchanged.
C11_ScaleZeroRejected ==
    [][\A config \in SaveInputs :
          (config.scale = 0 /\ Save(config)) =>
             /\ lastCall'.err = "ValidationError"
             /\ deployments' = deployments]_vars

ConfigActions == {RunDeploymentAction, RestartContainersAction}

\* a Reconciler call builds a job in this step
Builds(jid) == jid \notin DOMAIN jobs /\ jid \in DOMAIN jobs'

\* C12: the config a Run or Restart job acts on is the value loaded when the
\* Reconciler action was called: the Config in the job's Args is the stored
\* config of that moment, no later step (a Save, a Delete, a phase of the job)
\* changes it, and every container the job creates has its image and tag and
\* an index within its scale.
C12_ConfigIsCallTimeSnapshot ==
    [][/\ \A jid \in DOMAIN jobs' :
            (Builds(jid) /\ jobs'[jid].type \in ConfigActions) =>
                jobs'[jid].cfg = deployments[jobs'[jid].dep]
       /\ \A jid \in DOMAIN jobs : jobs'[jid].cfg = jobs[jid].cfg
       /\ \A d \in Deps : \A i \in DOMAIN containers'[d] :
            LET c == containers'[d][i]
            IN  /\ c.image = jobs'[c.job].cfg.image
                /\ c.tag = jobs'[c.job].cfg.tag
                /\ c.id[3] <= jobs'[c.job].cfg.scale]_vars

\* C12 witness: a Run or Restart job has created containers from its config
\* although the stored config of its deployment was replaced by a Save, or
\* removed, after the call that built the job.
C12_Witness ==
    \E jid \in DOMAIN jobs :
        /\ jobs[jid].type \in ConfigActions
        /\ \E i \in DOMAIN containers[jobs[jid].dep] :
              containers[jobs[jid].dep][i].job = jid
        /\ \/ jobs[jid].dep \notin DOMAIN deployments
           \/ deployments[jobs[jid].dep] # jobs[jid].cfg

\* C13: a Restart job for D that has zero containers when its Setup runs
\* still creates and starts cfg.scale new containers without pulling the
\* image: when it reaches succeeded, exactly cfg.scale containers labelled D
\* exist, all of them running and created by the job, and no Run attempt of
\* the job had a pull step.
C13_RestartFromZero ==
    [][\A jid \in DOMAIN jobs :
          (/\ Succeeds(jid)
           /\ jobs[jid].type = RestartContainersAction
           /\ jobs[jid].toRemove = << >>) =>
             LET cs == containers'[jobs[jid].dep]
             IN  /\ Len(cs) = jobs[jid].cfg.scale
                 /\ \A i \in DOMAIN cs : cs[i].state = "running" /\ cs[i].job = jid
                 /\ \A i \in RunEntries(jobs[jid]) :
                       jobs[jid].phaseLog[i].step # "pull"]_vars

\* C14: every job that has reached a terminal state, of any of the five
\* types including Delete, has a record stored under jobs:<deployment> keyed
\* by its id that carries that terminal state.
C14_TerminalJobsRecorded ==
    \A jid \in DOMAIN jobs :
        jobs[jid].state \in Terminal =>
            /\ jobs[jid].dep \in DOMAIN jobsColl
            /\ jid \in DOMAIN jobsColl[jobs[jid].dep]
            /\ jobsColl[jobs[jid].dep][jid] = jobs[jid].state

FinallyEntries(j) == {i \in DOMAIN j.phaseLog : j.phaseLog[i].phase = "finally"}

\* the Finally phase of job jid is executed in this step
RunsFinally(jid) ==
    Cardinality(FinallyEntries(jobs'[jid])) > Cardinality(FinallyEntries(jobs[jid]))

\* every container the last Run attempt of j had to create is there and running
NewGenerationUp(j) ==
    \A i \in 1..j.cfg.scale :
        \E k \in DOMAIN containers[j.dep] :
            /\ containers[j.dep][k].id = <<j.id, j.attempts, i>>
            /\ containers[j.dep][k].state = "running"

\* C15: for Run and Restart jobs Finally executes only after a Run attempt of
\* the same job succeeded: when Finally is executed the last Run attempt
\* returned success (health check passed) and every container it created is
\* running; as long as no Run attempt of a running job has succeeded, every
\* container of its Setup snapshot is still there in the same state; and a
\* job none of whose Run attempts succeeded has no Finally in its phase log.
C15_FinallyOnlyAfterRunSuccess ==
    [][\A jid \in DOMAIN jobs :
          jobs[jid].type \in ConfigActions =>
             /\ RunsFinally(jid) =>
                   /\ jobs[jid].runOk
                   /\ jobs[jid].phaseLog[Len(jobs[jid].phaseLog)] =
                         [phase |-> "run", step |-> "none", k |-> 0, err |-> NoError]
                   /\ NewGenerationUp(jobs[jid])
             /\ (jobs[jid].state = "running" /\ ~jobs'[jid].runOk) =>
                   Elems(jobs'[jid].toRemove) \subseteq Elems(containers'[jobs[jid].dep])
             /\ ~jobs'[jid].runOk => FinallyEntries(jobs'[jid]) = {}]_vars

\* C15 witness: a Run or Restart job with an old generation in its Setup
\* snapshot whose first Run attempt failed, whose second succeeded and whose
\* Finally was then executed.
C15_Witness ==
    \E jid \in DOMAIN jobs :
        /\ jobs[jid].type \in ConfigActions
        /\ jobs[jid].toRemove # << >>
        /\ jobs[jid].attempts = 2
        /\ FinallyEntries(jobs[jid]) # {}

\* the Run attempts of j that returned success
OkRuns(j) == {i \in RunEntries(j) : j.phaseLog[i].err = NoError}

\* C16: for every job, the number of Run attempts never exceeds retryPolicy,
\* no Run attempt follows a successful one (a successful attempt is the last
\* entry of the Run phase), and a job is succeeded only if one of its Run
\* attempts returned success; a job with retryPolicy = 0 is never succeeded.
C16_AttemptsWithinRetryPolicy ==
    \A jid \in DOMAIN jobs :
        LET j == jobs[jid]
        IN  /\ j.attempts = Cardinality(RunEntries(j))
            /\ j.attempts <= retryPolicy
            /\ \A i \in OkRuns(j) : \A k \in RunEntries(j) : k <= i
            /\ j.state = "succeeded" => OkRuns(j) # {}
            /\ retryPolicy = 0 => j.state # "succeeded"

\* C16 witness: a job that used up its retry policy of two attempts, both
\* failed, and ended failed.
C16_Witness ==
    \E jid \in DOMAIN jobs :
        /\ jobs[jid].state = "failed"
        /\ jobs[jid].retry = 2
        /\ jobs[jid].attempts = 2
        /\ OkRuns(jobs[jid]) = {}

\* the error kinds a further Run attempt may follow
RetriedKinds == {"RuntimeUnavailable", "StoreIO"}

NotRetriedKinds ==
    {"HealthUnstable", "NoContainers", "RuntimeNotFound", "RuntimeConflict",
     "RuntimeImage"}

LastRun(j) == j.phaseLog[CHOOSE i \in RunEntries(j) : \A k \in RunEntries(j) : k <= i]

\* C18: Finally is executed at most once per job and its failure never
\* changes the verdict of the Run phase: a terminal job whose last Run attempt
\* succeeded is succeeded with no error whatever Finally returned (the error
\* of Finally is only in the phase log), and a terminal job whose last Run
\* attempt failed is failed with the error of that attempt as its error.
C18_FinallyKeepsRunVerdict ==
    \A jid \in DOMAIN jobs :
        LET j == jobs[jid]
        IN  /\ Cardinality(FinallyEntries(j)) <= 1
            /\ (j.state \in Terminal /\ RunEntries(j) # {}) =>
                  IF LastRun(j).err = NoError
                  THEN j.state = "succeeded" /\ j.error = NoError
                  ELSE j.state = "failed" /\ j.error = LastRun(j).err

\* C18 witness: a job that ended succeeded although its Finally returned an
\* error, which is in the phase log only.
C18_Witness ==
    \E jid \in DOMAIN jobs :
        /\ jobs[jid].state = "succeeded"
        /\ jobs[jid].error = NoError
        /\ \E i \in FinallyEntries(jobs[jid]) : jobs[jid].phaseLog[i].err # NoError

\* C19: in a Delete job the three steps of Finally (delete the secrets
\* collection, delete the jobs collection, delete the config) are independent
\* and best-effort: when one of them fails the other two are still carried
\* out, so after a Finally in which one step failed the objects of the other
\* two steps are gone.
C19_DeleteFinallyBestEffort ==
    [][\A jid \in DOMAIN jobs :
          (jobs[jid].type = DeleteDeploymentAction /\ RunsFinally(jid)) =>
             LET d == jobs[jid].dep
                 e == jobs'[jid].phaseLog[Len(jobs'[jid].phaseLog)]
             IN  /\ e.step # "secrets" => d \notin secretsColl'
                 /\ e.step # "jobs" => d \notin DOMAIN jobsColl'
                 /\ e.step # "config" => d \notin DOMAIN deployments']_vars

\* the probes of container c made so far
ProbesOf(c) == {n \in DOMAIN probing.log : probing.log[n].c = c}

\* container c reports Ok() = true within a budget of `retries` probes
OkWithinBudget(c) == probing.okAt[c] <= retries - 1

\* C20: the health check with budget retries probes each container at most
\* retries times, at attempts i = 0 .. retries-1 with a sleep of 10*i seconds
\* before attempt i, one container after the other; it passes iff every
\* container reported Ok() = true within its own budget and fails with
\* HealthUnstable at the first container that did not.
C20_HealthCheckBudget ==
    /\ \A c \in DOMAIN probing.okAt : Cardinality(ProbesOf(c)) <= retries
    /\ \A n \in DOMAIN probing.log :
          /\ probing.log[n].i \in 0..(retries - 1)
          /\ probing.log[n].sleep = 10 * probing.log[n].i
          /\ n > 1 => probing.log[n - 1].c <= probing.log[n].c
    /\ probing.err = NoError => \A c \in DOMAIN probing.okAt : OkWithinBudget(c)
    /\ probing.err = "HealthUnstable" =>
          /\ ~OkWithinBudget(probing.offender)
          /\ \A c \in 1..(probing.offender - 1) : OkWithinBudget(c)
    /\ (probing.err = "checking" /\ probing.c > Len(probing.okAt)) =>
          \A c \in DOMAIN probing.okAt : OkWithinBudget(c)

\* C21: CreateBridgeNetwork is idempotent and safe under concurrency: after
\* any number of calls with one name, sequential or interleaved between two
\* callers, exactly one network of that name exists, and every call that has
\* returned returned the id of that network without error.
C21_EnsureNetworkIdempotent ==
    /\ \A name \in NetNames :
          Cardinality({i \in DOMAIN netState.networks :
                          netState.networks[i] = name}) <= 1
    /\ \A c \in DOMAIN netState.caller :
          LET k == netState.caller[c]
          IN  (k.pc = "idle" /\ k.calls > 0) =>
                 /\ k.err = NoError
                 /\ k.ret # 0
                 /\ k.ret = GetNetworkByName(k.name)

\* a job of deployment d is waiting to be enqueued, queued or running
Pending(d) ==
    \E jid \in JobsOf(d) :
        \/ jid \in spawned
        \/ \E i \in DOMAIN queue : queue[i] = jid
        \/ jobs[jid].state = "running"

\* C22: whenever no job for D is queued or running, if deployments/D is
\* absent from the store then no container labelled D exists and neither
\* secrets:D nor jobs:D exists, after any sequence of Save, Run, Restart,
\* Start, Stop and Delete calls.
C22_AbsentConfigOwnsNothing ==
    \A d \in Deps :
        (~Pending(d) /\ d \notin DOMAIN deployments) =>
            /\ containers[d] = << >>
            /\ d \notin secretsColl
            /\ d \notin DOMAIN jobsColl

\* C23: the Finally of a Run or Restart job removes only containers of the
\* snapshot taken by the job's Setup: what a Finally step removes is in
\* ContainersToRemove and it adds or changes nothing else; a container created
\* by any Run attempt of the job, failed attempts included, is in no snapshot
\* of the job and is still in the runtime as long as the job runs and when it
\* ends; and ContainersToRemove does not change once Setup has returned.
C23_FinallyRemovesOnlySnapshot ==
    [][\A jid \in DOMAIN jobs :
          jobs[jid].type \in ConfigActions =>
             LET d == jobs[jid].dep
             IN  /\ RunsFinally(jid) =>
                       /\ Ids(containers[d]) \ Ids(containers'[d])
                             \subseteq Ids(jobs[jid].toRemove)
                       /\ Elems(containers'[d]) \subseteq Elems(containers[d])
                 /\ jobs[jid].state = "running" =>
                       /\ CreatedBy(jobs'[jid]) \subseteq Ids(containers'[d])
                       /\ CreatedBy(jobs'[jid]) \cap Ids(jobs'[jid].toRemove) = {}
                 /\ jobs[jid].phaseLog # << >> =>
                       jobs'[jid].toRemove = jobs[jid].toRemove]_vars

\* C23 witness: a Run or Restart job with an old generation in its snapshot
\* whose failed first attempt created a container, whose second attempt
\* succeeded and whose Finally removed the whole snapshot and none of the
\* containers the job created.
C23_Witness ==
    \E jid \in DOMAIN jobs :
        LET j == jobs[jid]
        IN  /\ j.type \in ConfigActions
            /\ j.toRemove # << >>
            /\ j.attempts = 2
            /\ Cardinality(CreatedBy(j)) > j.cfg.scale
            /\ \E i \in FinallyEntries(j) : j.phaseLog[i].err = NoError
            /\ Ids(containers[j.dep]) = CreatedBy(j)

\* the ids of the jobs the calls after the Save can build
JobIds == 1..(MaxCalls - 1)

\* job jid was accepted by the queue and waits there
InQueue(jid) == \E i \in DOMAIN queue : queue[i] = jid

\* job jid is terminal and no worker holds the lock of its deployment for it
Done(jid) ==
    /\ jid \in DOMAIN jobs
    /\ jobs[jid].state \in Terminal
    /\ \A w \in Workers : worker[w].job # jid

\* the state of a job moves only queued -> running -> succeeded | failed
LifecycleStep(from, to) ==
    \/ from = to
    \/ from = "queued" /\ to = "running"
    \/ from = "running" /\ to \in Terminal

\* C24: under fair scheduling of the workers every job accepted by the queue
\* eventually reaches a terminal state and releases the lock of its
\* deployment, whatever its Setup, Run attempts and Finally return; the state
\* of a job only moves queued -> running -> succeeded | failed and a terminal
\* state is never left.
C24_AcceptedJobsTerminate ==
    /\ \A jid \in JobIds : InQueue(jid) ~> Done(jid)
    /\ [][\A jid \in DOMAIN jobs :
             LifecycleStep(jobs[jid].state, jobs'[jid].state)]_vars

\* C24 witness: a job that waited in the queue behind the lock of its
\* deployment has ended and released the lock, after a failed and a retried
\* Run attempt, while an earlier job of the deployment failed in its Setup.
C24_Witness ==
    \E j1, j2 \in DOMAIN jobs :
        /\ j1 < j2
        /\ Done(j1) /\ Done(j2)
        /\ jobs[j1].dep = jobs[j2].dep
        /\ jobs[j1].attempts = 0 /\ jobs[j1].error # NoError
        /\ jobs[j2].attempts = 2
        /\ \A w \in Workers : worker[w] = Idle

====
